---- MODULE Spec2Model ----
(***************************************************************************)
(* A model of the Sora video-assembly pipeline of GAIT Story Builder       *)
(* (src/src/services/video_service.py): one run of                         *)
(* generate_video_with_sora, the remote job client call_sora_video with    *)
(* its polling loop _poll_sora_job, the clip assembler                     *)
(* _concat_and_optionally_add_audio and the mixer _overlay_music_to_video. *)
(*                                                                         *)
(* Durations handed to _quantize_sora_duration are Python floats.  The     *)
(* model counts them in quarter seconds (Q(s) = 4 * s), which is exact for *)
(* every value the pipeline computes from whole-second beat durations:     *)
(* base + max(1.0, base * 0.25) is a multiple of 0.25.  The values that    *)
(* leave the duration functions (4, 8, 12) are whole seconds.              *)
(***************************************************************************)
EXTENDS Integers, Sequences, FiniteSets, TLC

\* ------------------------------------------------------------------ bounds
\* The largest number of beats of a scene whose beats come in any array order.
MaxBeats == 2
\* The largest number of beats of a scene whose beats come in ascending order.
MaxOrderedBeats == 3
\* The duration arguments of the pure-function specification, in quarter
\* seconds: -MaxQuarter .. MaxQuarter.
MaxQuarter == 60

\* ------------------------------------------------------- program constants
\* for _ in range(180)
PollAttempts == 180
\* seconds_per_beat, the per-beat fallback duration
seconds_per_beat == 4

\* The values of a beat's duration fields: <<tag, n>>, None (the key is
\* missing or null), a number of seconds, or a value float() cannot parse.
None == <<"None", 0>>
Num(n) == <<"number", n>>
Unparseable == <<"text", 0>>

\* Seconds to quarter seconds.
Q(s) == 4 * s

Max(a, b) == IF a >= b THEN a ELSE b

Range(s) == {s[i] : i \in DOMAIN s}

\* ------------------------------------------------------- duration functions
_quantize_sora_duration_lt(dq) ==
    IF dq < Q(6) THEN 4 ELSE IF dq < Q(10) THEN 8 ELSE 12

\* _quantize_sora_duration(duration), duration in quarter seconds.
_quantize_sora_duration(dq) ==
    IF dq <= Q(6) THEN 4 ELSE IF dq <= Q(10) THEN 8 ELSE 12

\* float(raw) raises for None and for text that is no number.
IsNumber(raw) == raw[1] = "number"

_beat_duration_no_buffer(beat, fallback) ==
    LET raw == IF beat.padded_duration_seconds # None
               THEN beat.padded_duration_seconds ELSE beat.duration_seconds
    IN  _quantize_sora_duration(IF IsNumber(raw) THEN Q(raw[2]) ELSE Q(fallback))

\* _beat_duration_with_buffer(beat, fallback): whole seconds in, seconds out.
\* base * 0.25 seconds is `base` quarter seconds.
_beat_duration_with_buffer(beat, fallback) ==
    LET has_padded == beat.padded_duration_seconds # None
        raw == IF beat.padded_duration_seconds # None
               THEN beat.padded_duration_seconds ELSE beat.duration_seconds
        base == IF IsNumber(raw) THEN raw[2] ELSE fallback
        padded == IF has_padded THEN Q(base) ELSE Q(base) + Max(Q(1), base)
    IN  _quantize_sora_duration(padded)

RECURSIVE SumSeq(_)
SumSeq(s) == IF s = <<>> THEN 0 ELSE Head(s) + SumSeq(Tail(s))

\* _total_duration_with_buffer(beats, fallback_per_beat)
_total_duration_with_buffer(beats, fallback_per_beat) ==
    IF beats = <<>> THEN fallback_per_beat
    ELSE LET total == SumSeq([i \in DOMAIN beats |->
                          _beat_duration_with_buffer(beats[i], fallback_per_beat)])
         IN  _quantize_sora_duration(Q(Max(total, Len(beats) * fallback_per_beat)))


\* ------------------------------------------------------------------ inputs
\* The beat of the scene with the given `order`.  Orders 1 and 2 are the
\* beats of the end-to-end scenario (3 s and 9 s, no padded duration); order 3
\* carries a padded duration of 10 s beside a duration of 3 s; later orders
\* carry no usable duration at all.
BeatOf(o) ==
    [order |-> o,
     duration_seconds |-> IF o = 1 THEN Num(3) ELSE IF o = 2 THEN Num(9)
                          ELSE IF o = 3 THEN Num(3) ELSE Unparseable,
     padded_duration_seconds |-> IF o = 3 THEN Num(10) ELSE None]

\* scene["beats"]: the beats 1..n of a scene, in any array order for the
\* shorter scenes and in ascending order for the longer ones.
BeatArrays ==
    UNION {{[i \in 1..n |-> BeatOf(p[i])] :
                p \in {f \in [1..n -> 1..n] : \A i, j \in 1..n : f[i] = f[j] => i = j}}
           : n \in 0..MaxBeats}
    \cup {[i \in 1..n |-> BeatOf(i)] : n \in 0..MaxOrderedBeats}

\* music_path as the caller passes it: None or a path.  Whether there is a
\* file at the path is looked up when the music is about to be mixed.
MusicArgs == {"none", "path"}

\* ------------------------------------------------------------- references
\* An image value is <<form, picture, beat>>: form "bytes" (PNG bytes) or
\* "url"/"data-url" (a string), picture "composite" or "frame" (the last
\* frame of the clip of the beat).
NoImage == <<"none", "none", 0>>
Composite == <<"bytes", "composite", 0>>
CompositeUrl == <<"url", "composite", 0>>

\* (image_bytes, image_url) as the caller passes them: the composite scene
\* image as bytes, an http(s) URL of it, both or neither.
ImageArgs == {<<NoImage, NoImage>>, <<Composite, NoImage>>,
              <<Composite, CompositeUrl>>, <<NoImage, CompositeUrl>>}

\* _encode_image_to_data_url(image_bytes)
_encode_image_to_data_url(image_bytes) ==
    IF image_bytes = NoImage THEN NoImage
    ELSE <<"data-url", image_bytes[2], image_bytes[3]>>

\* _resize_reference_image letterboxes the picture to the target size; it
\* stays the same picture.
_resize_reference_image(image_bytes) == image_bytes

\* a or b, for image values (None and empty bytes are falsy)
Or(a, b) == IF a # NoImage THEN a ELSE b

\* The reference of call_sora_video's request: the multipart file
\* input_reference when there are bytes, else the image_url form field.
RequestReference(image_url, image_bytes) ==
    IF image_bytes # NoImage THEN image_bytes
    ELSE IF image_url # NoImage THEN image_url
    ELSE NoImage

\* ------------------------------------------------------------------- files
\* A file content is [kind, clips, music]: the clip the remote job made for
\* the request of one beat (clips = <<order>>, <<0>> for the single-call
\* fallback), or a video made of the clips of several beats, with or without
\* the music track.
Absent == [kind |-> "absent", clips |-> <<>>, music |-> FALSE]
Clip(order) == [kind |-> "clip", clips |-> <<order>>, music |-> FALSE]
Video(clips, with_music) == [kind |-> "video", clips |-> clips, music |-> with_music]

RawPath == <<"generated_video_nomusic.mp4", 0>>
FinalPath == <<"generated_video.mp4", 0>>
\* segment_dir / f"segment_{idx:02}.mp4"
SegPath(i) == <<"sora_segments/segment", i>>
SegPaths == {SegPath(i) : i \in 1..Max(MaxBeats, MaxOrderedBeats)}
\* output_path.with_suffix(".tmp.mp4"), the mixer's temp_out
TempPath == <<"generated_video.tmp.mp4", 0>>
RawTempPath == <<"generated_video_nomusic.tmp.mp4", 0>>
Paths == {RawPath, FinalPath, TempPath, RawTempPath} \cup SegPaths

\* What an earlier run left at one of the output paths.
Previous == [kind |-> "previous", clips |-> <<>>, music |-> FALSE]
\* The output directory before the call: empty, or with the final and the raw
\* video of an earlier run.
PreviousDirs ==
    {[p \in Paths |-> Absent],
     [p \in Paths |-> IF p \in {RawPath, FinalPath} THEN Previous ELSE Absent]}

\* _extract_last_frame_as_png(video_path) when it succeeds: the last frame of
\* the clip stored there.
_extract_last_frame_as_png(content) == <<"bytes", "frame", content.clips[Len(content.clips)]>>

\* ---------------------------------------------------------------- outcomes
\* What a call ends with: [status, error, beat].  `error` is the text the
\* raise statement gives the exception (without the payload it appends),
\* `beat` the beat order the exception names: no raise statement of the
\* module names one (NoBeat).
NoBeat == {}
NoOutcome == [status |-> "none", error |-> "", beat |-> NoBeat]
Returned == [status |-> "returned", error |-> "", beat |-> NoBeat]
Raised(msg) == [status |-> "raised", error |-> msg, beat |-> NoBeat]

\* An answer of the remote API: to the submission or to a status request.
NoResponse == [state |-> "none", avail |-> {}]

NoResult == <<"none", "none">>
\* The finally block has not run: nothing attempted, nothing failed.
NoCleanup == [ran |-> FALSE, attempted |-> {}, failed |-> {}]
\* The audio of the file the mixer encodes: the target duration, the length
\* of the music track and the seconds of the target during which music
\* sounds (whole seconds).
NoSoundtrack == [target |-> 0, track |-> 0, audible |-> 0]
\* session["video_asset"] of the page: not set, or the asset of a run.
NoAsset == [status |-> "none", music_volume |-> 0]
\* The page: before the click on Generate, in the handler, after it.
PageIdle == [at |-> "idle", video_asset |-> NoAsset, music_volume |-> 0, message |-> ""]
NoCall == [fn |-> "none", arg |-> 0, ret |-> 0]

\* ------------------------------------------- the page's session and files
\* The paths the playback section works with.
PreviewPath == <<"generated_video_with_music_preview.mp4", 0>>
ExportPath == <<"generated_video_with_music.mp4", 0>>
AssetMusic == <<"generated_music.mp3", 0>>
\* The raw videos and the music tracks _render_playback can resolve.
RawSources == {RawPath}
MusicSources == {AssetMusic}
\* st.session_state of the page, a mapping from the keys that are set to
\* their values: the three controls of the playback section, the two export
\* keys and the six keys of the preview cache.  A new session has the volume
\* of st.session_state.setdefault.
NoSession == [video_music_volume |-> 50]
ExportKeys == {"video_export_path", "video_export_volume"}
PreviewKeys ==
    {"video_music_preview_path", "video_music_preview_volume",
     "video_music_preview_source", "video_music_preview_music",
     "video_music_preview_delay", "video_music_preview_start_offset"}
\* st.session_state.get(key)
Get(s, key) == IF key \in DOMAIN s THEN s[key] ELSE None
\* st.session_state[key] = value, for the keys of a record of values.
PutAll(s, values) == values @@ s
\* st.session_state.pop(key, None), for a set of keys.
PopAll(s, keys) == [key \in DOMAIN s \ keys |-> s[key]]
\* A file a mix wrote: the raw video, the music and the three settings it was
\* mixed with; NoMix when the file is not there.
NoMix == [exists |-> FALSE]
Mixed(source, music, volume, delay, start_offset) ==
    [exists |-> TRUE, source |-> source, music |-> music, volume |-> Num(volume),
     delay |-> Num(delay), start_offset |-> Num(start_offset)]
NoOutputs == [preview |-> NoMix, export |-> NoMix]
\* What the last run of _render_playback did: whether it got as far as the
\* preview with music, the raw video and the music it resolved, whether the
\* preview file was there, whether it warned and mixed, and the path
\* _build_music_preview returned.
NoPlayback == [with_music |-> FALSE]

\* ----------------------------------------------- the script and its scene
\* The largest number of structured scenes the language model generates.
MaxScenes == 3
\* Script texts: the empty text, a text of white space and two scripts; the
\* dev mode's sample script is the first of them.
Texts == {"", " ", "A", "B"}
DevScript == "A"
\* Structured scenes: the preset of the dev mode and the n-th scene the
\* language model generated.
DevScene == <<"dev", 0>>
Generated(n) == <<"scene", n>>
\* What the last page run did about regenerating the scene: the path that
\* led to it (chat, sample, editor, confirm, character), the text, the scene, the assets and the source text it found, whether it
\* attempted a regeneration and whether that failed.
NoLast == [op |-> "none"]
\* A new session: AppState's defaults, no structured_scene_source_text, no
\* snapshot in src/output.
NoApp == [script_text |-> "", structured_scene |-> None, character_assets |-> <<>>,
          background_asset |-> None, source_text |-> "", snapshot |-> None,
          dev_script_loaded |-> FALSE, generated |-> 0, last |-> NoLast]

\* ------------------------------------------------------------------- state
VARIABLES
    pc,                     \* where the run is
    beats,                  \* scene.get("beats") or []
    music_path,             \* the music_path argument
    idx,                    \* the loop index of generate_video_with_sora
    seed_image_bytes,       \* the current reference image
    seed_image_data_url,    \* its data-URL form
    requests,               \* the POST requests sent to /v1/videos, in order
    polls,                  \* status requests issued for the current job
    last_response,          \* the last answer of the remote API to call_sora_video
    frames,                 \* what _extract_last_frame_as_png returned, per segment
    video_result,           \* what call_sora_video returned
    clip_paths,             \* generate_video_with_sora's clip_paths
    segment_durations,      \* generate_video_with_sora's segment_durations
    files,                  \* the output directory: path -> content
    concat_calls,           \* invocations of _concat_and_optionally_add_audio
    overlay_calls,          \* invocations of _overlay_music_to_video
    outcome,                \* what generate_video_with_sora returned or raised
    call,                   \* a call of a pure duration function
    before,                 \* the output directory as the call found it
    cleanup,                \* what the finally block of the per-beat branch did
    music_file,             \* what Path(music_path).is_file() answered
    soundtrack,             \* the audio of the file the mixer encoded
    generator,              \* the generator function that was called
    page,                   \* the video generation page
    session,                \* st.session_state: the playback controls and caches
    outputs,                \* the preview file and the export file
    playback,               \* what the last run of _render_playback did
    app                     \* the script, the structured scene and its snapshot

vars == <<pc, beats, music_path, idx, seed_image_bytes, seed_image_data_url,
          requests, polls, last_response, frames, video_result, clip_paths,
          segment_durations, files, concat_calls, overlay_calls, outcome, call,
          before, cleanup, music_file, soundtrack, generator, page,
                   session, outputs, playback, app>>

run_vars == <<pc, beats, music_path, idx, seed_image_bytes, seed_image_data_url,
              requests, polls, last_response, frames, video_result, clip_paths,
              segment_durations, files, concat_calls, overlay_calls, outcome,
              before, cleanup, music_file, soundtrack, generator, page,
                   session, outputs, playback>>

run_vars_but_page ==
    <<pc, beats, music_path, idx, seed_image_bytes, seed_image_data_url,
      requests, polls, last_response, frames, video_result, clip_paths,
      segment_durations, files, concat_calls, overlay_calls, outcome,
      before, cleanup, music_file, soundtrack, generator>>

\* Before the call of a generator: the output directory is empty or holds the
\* output of an earlier run.
RunInit ==
    /\ pc = "idle"
    /\ beats = <<>>
    /\ music_path = "none"
    /\ idx = 0
    /\ seed_image_bytes = NoImage
    /\ seed_image_data_url = NoImage
    /\ requests = <<>>
    /\ polls = 0
    /\ last_response = NoResponse
    /\ frames = <<>>
    /\ video_result = NoResult
    /\ clip_paths = <<>>
    /\ segment_durations = <<>>
    /\ files \in PreviousDirs
    /\ before = files
    /\ concat_calls = 0
    /\ overlay_calls = 0
    /\ outcome = NoOutcome
    /\ cleanup = NoCleanup
    /\ music_file = "unchecked"
    /\ soundtrack = NoSoundtrack
    /\ generator = "none"
    /\ page = PageIdle
    /\ session = NoSession
    /\ outputs = NoOutputs
    /\ playback = NoPlayback
    /\ app = NoApp

Init == RunInit /\ call = NoCall



\* ----------------------------------------------------------------- cleanup
\* The finally block of the per-beat branch: every segment_*.mp4 is unlinked,
\* an unlink that fails is ignored (the files in `kept` stay).
CleanupResults(f) ==
    {[p \in Paths |-> IF p \in SegPaths /\ p \notin kept THEN Absent ELSE f[p]] :
        kept \in SUBSET {p \in SegPaths : f[p] # Absent}}

\* The segment files segment_dir.glob("segment_*.mp4") finds.
SegmentFiles(f) == {p \in SegPaths : f[p] # Absent}

Finally_only_on_success(f) ==
    IF idx > 0 /\ outcome' = Returned
    THEN \E g \in CleanupResults(f) :
            /\ files' = g
            /\ cleanup' = [ran |-> TRUE, attempted |-> SegmentFiles(f),
                           failed |-> SegmentFiles(g)]
    ELSE files' = f /\ cleanup' = cleanup

\* The way out of generate_video_with_sora: through the finally block when
\* the per-beat loop had been entered (idx > 0), directly otherwise.
Finally(f) ==
    IF idx > 0
    THEN \E g \in CleanupResults(f) :
            /\ files' = g
            /\ cleanup' = [ran |-> TRUE, attempted |-> SegmentFiles(f),
                           failed |-> SegmentFiles(g)]
    ELSE files' = f /\ cleanup' = cleanup

Abort_and_assemble(msg, f) ==
    /\ pc' = "assemble"
    /\ outcome' = outcome
    /\ files' = f
    /\ cleanup' = cleanup

\* An exception leaves generate_video_with_sora.  Nothing in the function
\* catches or wraps it.
Abort(msg, f) ==
    /\ pc' = "done"
    /\ outcome' = Raised(msg)
    /\ Finally(f)

\* generate_video_with_sora returns (final_path, raw_path).
Return(f) ==
    /\ pc' = "done"
    /\ outcome' = Returned
    /\ Finally(f)

\* segments = [[b] for b in beats]: one single-beat slice per beat, in the
\* order of the array.
segments(bts) == bts

\* ------------------------------------------------------- the call sites
\* The parameters of generate_video_with_sora.
SoraParameters ==
    {"scene", "music_path", "seconds_per_beat", "resolution", "model_id",
     "image_url", "image_bytes", "output_dir"}
\* The parameters of generate_video_from_structured_scene.
StructuredParameters ==
    {"scene", "background_asset", "music_path", "seconds_per_beat", "resolution",
     "fps", "output_dir"}
\* The keyword arguments of the page's call of generate_video_with_sora.
PageSoraKeywords ==
    {"scene", "music_path", "seconds_per_beat", "resolution", "sanitize_prompts",
     "music_volume", "music_delay_seconds", "music_start_offset_seconds",
     "model_id", "image_bytes", "image_url"}
\* The keyword arguments of the page's call of
\* generate_video_from_structured_scene.
PageStructuredKeywords ==
    {"scene", "background_asset", "music_path", "seconds_per_beat", "resolution",
     "music_volume", "music_delay_seconds", "music_start_offset_seconds"}
\* A direct call with arguments the signature has, or the call the page's
\* Generate button makes.
CallSites == {"direct", "page"}
\* The call binds its keyword arguments when the function has a parameter for
\* each of them; otherwise Python raises TypeError before the body runs.
Binds(keywords, parameters) == keywords \subseteq parameters
\* Positions of the page's volume slider, in percent.
Volumes == {25, 50}
\* The page after the click, in the handler of the Generate button, with the
\* controls it read.
Clicked(volume, sanitize) ==
    [at |-> "handler", video_asset |-> page.video_asset, music_volume |-> volume,
     message |-> ""]

\* ----------------------------------------------- generate_video_with_sora
\* The call up to the first remote request: dependencies, the reference
\* image, the optional vision description, the choice of the branch.
StartRun ==
    /\ pc = "idle"
    /\ generator' = "sora"
    /\ \E site \in CallSites, volume \in Volumes, sanitize \in BOOLEAN,
          b \in BeatArrays, m \in MusicArgs, img \in ImageArgs,
          deps_ok \in BOOLEAN, vision_ok \in BOOLEAN :
        LET image_bytes == img[1]
            image_url == img[2]
            reference_image_bytes == _resize_reference_image(image_bytes)
            reference_image_data_url == _encode_image_to_data_url(reference_image_bytes)
            keywords == IF site = "page" THEN PageSoraKeywords ELSE SoraParameters
            bound == Binds(keywords, SoraParameters)
        IN  /\ page' = IF site = "page" THEN Clicked(volume, sanitize) ELSE page
            /\ site = "page" => volume = session.video_music_volume
            /\ beats' = b
            /\ music_path' = m
            /\ seed_image_bytes' = IF bound THEN reference_image_bytes ELSE NoImage
            /\ seed_image_data_url' =
                    IF bound THEN Or(reference_image_data_url, image_url) ELSE NoImage
            /\ IF ~bound
               THEN /\ idx' = 0
                    /\ pc' = "done"
                    /\ outcome' = Raised("TypeError: got an unexpected keyword argument")
               ELSE IF ~deps_ok
               THEN /\ idx' = 0
                    /\ pc' = "done"
                    /\ outcome' = Raised("Video dependencies not installed")
               ELSE IF image_url # NoImage /\ ~vision_ok
               THEN /\ idx' = 0
                    /\ pc' = "done"
                    /\ outcome' = Raised("Vision describe failed")
               ELSE /\ idx' = IF b # <<>> THEN 1 ELSE 0
                    /\ pc' = "submit"
                    /\ outcome' = outcome
    /\ UNCHANGED <<requests, polls, last_response, frames, video_result, clip_paths,
                   segment_durations, files, concat_calls, overlay_calls, call,
                   before, cleanup, music_file, soundtrack,
                   session, outputs, playback, app>>

Min(a, b) == IF a <= b THEN a ELSE b

\* The duration of the request being made: the beat's duration_hint in the
\* per-beat loop, target_duration in the single-call fallback.
RequestDuration ==
    IF idx > 0 THEN _beat_duration_with_buffer(segments(beats)[idx], seconds_per_beat)
    ELSE Min(_total_duration_with_buffer(beats, seconds_per_beat), 60)

\* --------------------------------------------------------- call_sora_video
\* The ways a submission ends before any status request: no API key in the
\* environment (nothing is sent), a non-2xx answer, an answer with an inline
\* URL, an answer with a job id, an answer with neither.
SubmitResponses == {"no_api_key", "rejected", "inline", "job", "no_id"}

Submit_polls_inline ==
    /\ pc = "submit"
    /\ \E resp \in SubmitResponses :
        LET request == [beat |-> IF idx > 0 THEN segments(beats)[idx].order ELSE 0,
                        seconds |-> RequestDuration,
                        reference |-> RequestReference(seed_image_data_url, seed_image_bytes)]
        IN  /\ requests' = IF resp = "no_api_key" THEN requests ELSE Append(requests, request)
            /\ polls' = 0
            /\ last_response' = [state |-> resp, avail |-> {}]
            /\ CASE resp = "no_api_key" ->
                        /\ Abort("OPENAI_API_KEY environment variable not set", files)
                        /\ video_result' = NoResult
                 [] resp = "rejected" ->
                        /\ Abort("Sora submit failed", files)
                        /\ video_result' = NoResult
                 [] resp = "no_id" ->
                        /\ Abort("Sora response missing job id", files)
                        /\ video_result' = NoResult
                 [] resp = "inline" ->
                        /\ pc' = "poll"
                        /\ video_result' = NoResult
                        /\ UNCHANGED <<outcome, files, cleanup>>
                 [] resp = "job" ->
                        /\ pc' = "poll"
                        /\ video_result' = NoResult
                        /\ UNCHANGED <<outcome, files, cleanup>>
    /\ UNCHANGED <<beats, music_path, idx, seed_image_bytes, seed_image_data_url,
                   frames, clip_paths, segment_durations, concat_calls,
                   overlay_calls, call, before, music_file, soundtrack, generator, page,
                   session, outputs, playback, app>>

\* call_sora_video up to its return, its raise or its call of _poll_sora_job.
Submit ==
    /\ pc = "submit"
    /\ \E resp \in SubmitResponses :
        LET request == [beat |-> IF idx > 0 THEN segments(beats)[idx].order ELSE 0,
                        seconds |-> RequestDuration,
                        reference |-> RequestReference(seed_image_data_url, seed_image_bytes)]
        IN  /\ requests' = IF resp = "no_api_key" THEN requests ELSE Append(requests, request)
            /\ polls' = 0
            /\ last_response' = [state |-> resp, avail |-> {}]
            /\ CASE resp = "no_api_key" ->
                        /\ Abort("OPENAI_API_KEY environment variable not set", files)
                        /\ video_result' = NoResult
                 [] resp = "rejected" ->
                        /\ Abort("Sora submit failed", files)
                        /\ video_result' = NoResult
                 [] resp = "no_id" ->
                        /\ Abort("Sora response missing job id", files)
                        /\ video_result' = NoResult
                 [] resp = "inline" ->
                        /\ pc' = "store"
                        /\ video_result' = <<"url", "inline">>
                        /\ UNCHANGED <<outcome, files, cleanup>>
                 [] resp = "job" ->
                        /\ pc' = "poll"
                        /\ video_result' = NoResult
                        /\ UNCHANGED <<outcome, files, cleanup>>
    /\ UNCHANGED <<beats, music_path, idx, seed_image_bytes, seed_image_data_url,
                   frames, clip_paths, segment_durations, concat_calls,
                   overlay_calls, call, before, music_file, soundtrack, generator, page,
                   session, outputs, playback, app>>

\* ---------------------------------------------------------- _poll_sora_job
SuccessStates == {"succeeded", "completed", "ready"}
FailureStates == {"failed", "error"}
\* The places a finished job's media can be found, in the order the client
\* tries them: video/result of the status answer, its data items, the files
\* endpoint's download URL, the content of a listed file, the job's content.
Sources == <<"embedded", "data_item", "file_url", "file_content", "job_content">>
UrlSources == {"embedded", "data_item", "file_url"}

\* One status answer: a non-2xx answer, or a state and, for a successful
\* state, the set of places where media is available.
PollResponses ==
    {[state |-> s, avail |-> {}] : s \in {"http_error", "queued"} \cup FailureStates}
    \cup {[state |-> s, avail |-> a] : s \in SuccessStates, a \in SUBSET Range(Sources)}

ExtractMedia_content_first(avail) ==
    IF avail = {} THEN NoResult
    ELSE IF "job_content" \in avail THEN <<"bytes", "job_content">>
    ELSE LET i == CHOOSE k \in DOMAIN Sources :
                    /\ Sources[k] \in avail
                    /\ \A j \in 1..(k - 1) : Sources[j] \notin avail
         IN  <<IF Sources[i] \in UrlSources THEN "url" ELSE "bytes", Sources[i]>>

\* The media reference a successful answer yields: the first available
\* source, a URL or bytes; NoResult when none is available.
ExtractMedia(avail) ==
    IF avail = {} THEN NoResult
    ELSE LET i == CHOOSE k \in DOMAIN Sources :
                    /\ Sources[k] \in avail
                    /\ \A j \in 1..(k - 1) : Sources[j] \notin avail
         IN  <<IF Sources[i] \in UrlSources THEN "url" ELSE "bytes", Sources[i]>>

PollStep_unbounded(resp, n) ==
    IF resp.state = "http_error" THEN <<"raise", "Sora poll failed">>
    ELSE IF resp.state \in SuccessStates
    THEN IF ExtractMedia(resp.avail) # NoResult THEN <<"return", "">>
         ELSE <<"raise", "Sora completed but no video url">>
    ELSE IF resp.state \in FailureStates THEN <<"raise", "Sora job failed">>
    ELSE <<"continue", "">>

PollStep_error_not_terminal(resp, n) ==
    IF resp.state = "http_error" THEN <<"raise", "Sora poll failed">>
    ELSE IF resp.state \in SuccessStates
    THEN IF ExtractMedia(resp.avail) # NoResult THEN <<"return", "">>
         ELSE <<"raise", "Sora completed but no video url">>
    ELSE IF resp.state = "failed" THEN <<"raise", "Sora job failed">>
    ELSE IF n + 1 < PollAttempts THEN <<"continue", "">>
    ELSE <<"raise", "Sora job timed out waiting for completion">>

PollStep_returns_early(resp, n) ==
    IF resp.state = "http_error" THEN <<"raise", "Sora poll failed">>
    ELSE IF resp.state \in SuccessStates
    THEN IF ExtractMedia(resp.avail) # NoResult THEN <<"return", "">>
         ELSE <<"raise", "Sora completed but no video url">>
    ELSE IF resp.state \in FailureStates THEN <<"raise", "Sora job failed">>
    ELSE <<"return", "">>

PollStep_empty_keeps_polling(resp, n) ==
    IF resp.state = "http_error" THEN <<"raise", "Sora poll failed">>
    ELSE IF resp.state \in SuccessStates /\ ExtractMedia(resp.avail) # NoResult
    THEN <<"return", "">>
    ELSE IF resp.state \in FailureStates THEN <<"raise", "Sora job failed">>
    ELSE IF n + 1 < PollAttempts THEN <<"continue", "">>
    ELSE <<"raise", "Sora job timed out waiting for completion">>

\* What one iteration of the loop `for _ in range(180)` does with the answer
\* to its status request, n iterations having gone before: return the media,
\* raise, or sleep and go on; after the last iteration the loop ends and the
\* timeout is raised.
PollStep(resp, n) ==
    IF resp.state = "http_error" THEN <<"raise", "Sora poll failed">>
    ELSE IF resp.state \in SuccessStates
    THEN IF ExtractMedia(resp.avail) # NoResult THEN <<"return", "">>
         ELSE <<"raise", "Sora completed but no video url">>
    ELSE IF resp.state \in FailureStates THEN <<"raise", "Sora job failed">>
    ELSE IF n + 1 < PollAttempts THEN <<"continue", "">>
    ELSE <<"raise", "Sora job timed out waiting for completion">>

\* One iteration of the polling loop.  `polls` is the number of status
\* requests the loop has issued and slept after; the counter is gone when
\* _poll_sora_job is left.
Poll ==
    /\ pc = "poll"
    /\ \E resp \in PollResponses :
        LET step == PollStep(resp, polls)
        IN  /\ last_response' = resp
            /\ CASE step[1] = "return" ->
                        /\ pc' = "store"
                        /\ video_result' = ExtractMedia(resp.avail)
                        /\ polls' = 0
                        /\ UNCHANGED <<outcome, files, cleanup>>
                 [] step[1] = "raise" ->
                        /\ Abort(step[2], files)
                        /\ video_result' = NoResult
                        /\ polls' = 0
                 [] step[1] = "continue" ->
                        /\ polls' = polls + 1
                        /\ UNCHANGED <<pc, outcome, files, video_result, cleanup>>
    /\ UNCHANGED <<beats, music_path, idx, seed_image_bytes, seed_image_data_url,
                   requests, frames, clip_paths, segment_durations, concat_calls,
                   overlay_calls, call, before, music_file, soundtrack, generator, page,
                   session, outputs, playback, app>>


\* -------------------------------- generate_video_with_sora, after the call
HasMusic_any_file(path, is_file) == is_file

\* What the test of the music path finds out about the file: nothing when
\* there is no path (is_file() is not called).
IsFile(path, is_file) ==
    IF path = "none" THEN "unchecked" ELSE IF is_file THEN "file" ELSE "missing"

HasMusic_without_file(path, is_file) == path # "none"

\* music_path and Path(music_path).is_file()
HasMusic(path, is_file) == path # "none" /\ is_file

NextSeed_keep(frame, seed) == seed

NextSeed_no_fallback(frame, seed) == frame

\* seed_image_bytes = _extract_last_frame_as_png(seg_path) or seed_image_bytes
NextSeed(frame, seed) == Or(frame, seed)

\* What follows a call_sora_video that returned: _store_video_result, then in
\* the per-beat loop the bookkeeping, the new seed and the next iteration (or
\* the end of the loop); in the single-call fallback the music decision.
Store ==
    /\ pc = "store"
    /\ \E download_ok \in BOOLEAN, frame_ok \in BOOLEAN, is_file \in BOOLEAN :
        IF video_result[1] = "url" /\ ~download_ok
        THEN /\ Abort("Download failed", files)
             /\ UNCHANGED <<idx, seed_image_bytes, seed_image_data_url, frames,
                            clip_paths, segment_durations, music_file>>
        ELSE IF idx > 0
        THEN LET seg_path == SegPath(idx)
                 stored == [files EXCEPT ![seg_path] = Clip(segments(beats)[idx].order)]
                 frame == IF frame_ok THEN _extract_last_frame_as_png(stored[seg_path])
                          ELSE NoImage
                 seed == NextSeed(frame, seed_image_bytes)
             IN  /\ files' = stored
                 /\ clip_paths' = Append(clip_paths, seg_path)
                 /\ segment_durations' = Append(segment_durations, RequestDuration)
                 /\ frames' = Append(frames, frame)
                 /\ seed_image_bytes' = seed
                 /\ seed_image_data_url' = IF seed # NoImage
                                           THEN _encode_image_to_data_url(seed)
                                           ELSE seed_image_data_url
                 /\ IF idx < Len(segments(beats))
                    THEN idx' = idx + 1 /\ pc' = "submit"
                    ELSE idx' = idx /\ pc' = "assemble"
                 /\ UNCHANGED <<outcome, cleanup, music_file>>
        ELSE LET stored == [files EXCEPT ![RawPath] = Clip(0)]
             IN  /\ music_file' = IsFile(music_path, is_file)
                 /\ IF HasMusic(music_path, is_file)
                    THEN /\ pc' = "mix"
                         /\ files' = stored
                         /\ UNCHANGED <<outcome, cleanup>>
                    ELSE \* raw_path.replace(final_path)
                         Return([stored EXCEPT ![FinalPath] = stored[RawPath],
                                               ![RawPath] = Absent])
                 /\ UNCHANGED <<idx, seed_image_bytes, seed_image_data_url, frames,
                                clip_paths, segment_durations>>
    /\ video_result' = NoResult
    /\ last_response' = NoResponse
    /\ UNCHANGED <<beats, music_path, requests, polls, concat_calls, overlay_calls, call,
                   before, soundtrack, generator, page,
                   session, outputs, playback, app>>

\* ------------------------------------- _concat_and_optionally_add_audio
\* What an encoder that failed leaves at the path it was writing.
Partial == [kind |-> "partial", clips |-> <<>>, music |-> FALSE]

\* The clips are read in the order of clip_paths and concatenated, the raw
\* file is written; without a music file the final file is a copy of it.
Assemble ==
    /\ pc = "assemble"
    /\ concat_calls' = concat_calls + 1
    /\ \E read_ok \in BOOLEAN, write_ok \in BOOLEAN, is_file \in BOOLEAN :
        LET raw == Video([i \in DOMAIN clip_paths |-> files[clip_paths[i]].clips[1]], FALSE)
            written == [files EXCEPT ![RawPath] = raw]
        IN  IF ~read_ok
            THEN /\ Abort("VideoFileClip could not read a segment", files)
                 /\ music_file' = music_file
            ELSE IF ~write_ok
            THEN /\ Abort("write_videofile failed", [files EXCEPT ![RawPath] = Partial])
                 /\ music_file' = music_file
            ELSE /\ music_file' = IsFile(music_path, is_file)
                 /\ IF HasMusic(music_path, is_file)
                    THEN /\ pc' = "mix"
                         /\ files' = written
                         /\ UNCHANGED <<outcome, cleanup>>
                    ELSE Return([written EXCEPT ![FinalPath] = written[RawPath]])
    /\ UNCHANGED <<beats, music_path, idx, seed_image_bytes, seed_image_data_url,
                   requests, polls, last_response, frames, video_result, clip_paths,
                   segment_durations, overlay_calls, call, before, soundtrack,
                   generator, page,
                   session, outputs, playback, app>>

\* ------------------------------------------------ _overlay_music_to_video
\* No output_path argument.
NoPath == <<"", 0>>

OutputPath_is_video(output_path, video_path) == video_path

\* output_path = output_path or video_path
OutputPath(output_path, video_path) ==
    IF output_path # NoPath THEN output_path ELSE video_path

TempOut_in_place(output_path) == output_path

\* temp_out = output_path.with_suffix(".tmp.mp4")
TempOut(output_path) == IF output_path = RawPath THEN RawTempPath ELSE TempPath

\* Lengths of the music track, in seconds.
MusicLengths == {6, 30}
\* What becomes of the loop: audio_loop made the looped track, audio_loop is
\* None (its import failed), or its call raised (the exception is passed over).
LoopOutcomes == {"looped", "unavailable", "raised"}
\* audio.volumex(0.25), in percent
MusicVolume == 25

\* The seconds of the target duration during which music sounds: the track is
\* looped to the target when it is shorter and the loop works, and then set
\* to the trimmed duration, which plays nothing past the end of the track.
Audible(track, target, trimmed, loop) ==
    IF track < target /\ loop = "looped" THEN Min(target, trimmed)
    ELSE Min(track, trimmed)

\* The raw video the mixer reads lasts as long as the clips requested for it,
\* and the callers pass that sum as expected_duration (trim_audio is true at
\* both call sites): target_duration = max(video_duration, expected_duration).
MixTarget ==
    LET expected == IF idx > 0 THEN SumSeq(segment_durations) ELSE RequestDuration
        video_duration == expected
    IN  Max(video_duration, expected)

\* The finally block of the mixer: a temp_out that exists while output_path
\* does not is unlinked (an unlink that fails is ignored).
MixFinally(f, output_path, temp_out) ==
    IF f[temp_out] # Absent /\ f[output_path] = Absent
    THEN {f, [f EXCEPT ![temp_out] = Absent]}
    ELSE {f}

\* The mixer up to the end of write_videofile: the raw video and the music
\* are opened, the music is looped, trimmed and lowered, and the video with
\* the music is encoded into temp_out.
Mix ==
    /\ pc = "mix"
    /\ overlay_calls' = overlay_calls + 1
    /\ \E read_ok \in BOOLEAN, audio_ok \in BOOLEAN, encode_ok \in BOOLEAN,
          track \in MusicLengths, loop \in LoopOutcomes :
        LET output_path == OutputPath(FinalPath, RawPath)
            temp_out == TempOut(output_path)
            target == MixTarget
            trimmed == target
            mixed == Video(files[RawPath].clips, TRUE)
        IN  IF ~read_ok
            THEN /\ Abort("VideoFileClip could not read the video", files)
                 /\ soundtrack' = soundtrack
            ELSE IF ~audio_ok
            THEN /\ Abort("AudioFileClip could not read the music", files)
                 /\ soundtrack' = soundtrack
            ELSE IF ~encode_ok
            THEN /\ \E g \in MixFinally([files EXCEPT ![temp_out] = Partial],
                                        output_path, temp_out) :
                        Abort("write_videofile failed", g)
                 /\ soundtrack' = soundtrack
            ELSE /\ pc' = "mix_unlink"
                 /\ files' = [files EXCEPT ![temp_out] = mixed]
                 /\ soundtrack' = [target |-> target, track |-> track,
                                   audible |-> Audible(track, target, trimmed, loop)]
                 /\ UNCHANGED <<outcome, cleanup>>
    /\ UNCHANGED <<beats, music_path, idx, seed_image_bytes, seed_image_data_url,
                   requests, polls, last_response, frames, video_result, clip_paths,
                   segment_durations, concat_calls, call, before, music_file,
                   generator, page,
                   session, outputs, playback, app>>

\* if output_path.exists(): output_path.unlink(), an exception is passed over.
MixUnlink ==
    /\ pc = "mix_unlink"
    /\ pc' = "mix_replace"
    /\ \E unlink_ok \in BOOLEAN :
        LET output_path == OutputPath(FinalPath, RawPath)
        IN  files' = IF files[output_path] # Absent /\ unlink_ok
                     THEN [files EXCEPT ![output_path] = Absent]
                     ELSE files
    /\ UNCHANGED <<beats, music_path, idx, seed_image_bytes, seed_image_data_url,
                   requests, polls, last_response, frames, video_result, clip_paths,
                   segment_durations, concat_calls, overlay_calls, outcome, call,
                   before, cleanup, music_file, soundtrack, generator, page,
                   session, outputs, playback, app>>

\* temp_out.replace(output_path), then the return to the caller, which
\* returns in turn.
MixReplace ==
    /\ pc = "mix_replace"
    /\ \E replace_ok \in BOOLEAN :
        LET output_path == OutputPath(FinalPath, RawPath)
            temp_out == TempOut(output_path)
        IN  IF files[temp_out] # Absent /\ replace_ok
            THEN Return([files EXCEPT ![output_path] = files[temp_out],
                                      ![temp_out] = Absent])
            ELSE \E g \in MixFinally(files, output_path, temp_out) :
                    Abort("replace failed", g)
    /\ UNCHANGED <<beats, music_path, idx, seed_image_bytes, seed_image_data_url,
                   requests, polls, last_response, frames, video_result, clip_paths,
                   segment_durations, concat_calls, overlay_calls, call, before,
                   music_file, soundtrack, generator, page,
                   session, outputs, playback, app>>

\* ------------------------------------------- the page's cache keys
\* The keys the handler clears after a call that returned: the export keys
\* and the preview cache, whose volume key takes the run's volume when the
\* run had music.
ClearCaches(s, has_music, music_volume) ==
    LET cleared == PopAll(s, ExportKeys \cup PreviewKeys)
    IN  IF has_music
        THEN PutAll(cleared, [video_music_preview_volume |-> Num(music_volume)])
        ELSE cleared
\* The keys are cleared whether the call returned or raised.
AfterCall_always(s, out, has_music, music_volume) ==
    ClearCaches(s, has_music, music_volume)
\* The session after the try block of the handler: the keys are cleared after
\* the call and set_video_asset, so an exception leaves them as they were.
AfterCall(s, out, has_music, music_volume) ==
    IF out = Returned THEN ClearCaches(s, has_music, music_volume) ELSE s

\* ----------------------------------------- the page's Generate handler
\* session["video_asset"] after a call that returned.
ReadyAsset(volume) == [status |-> "ready", music_volume |-> volume]

\* What the handler does with the outcome of the generator's call: it records
\* a ready video asset when the call returned, and shows the error when it
\* raised (except Exception as exc: st.error).
PageFinish ==
    /\ pc = "done"
    /\ page.at = "handler"
    /\ page' = IF outcome = Returned
               THEN [at |-> "shown", video_asset |-> ReadyAsset(page.music_volume),
                     music_volume |-> page.music_volume, message |-> "Video saved"]
               ELSE [page EXCEPT !.at = "shown", !.message = "Video generation failed"]
    /\ session' = AfterCall(session, outcome, music_path = "path", page.music_volume)
    /\ UNCHANGED <<pc, beats, music_path, idx, seed_image_bytes, seed_image_data_url,
                   requests, polls, last_response, frames, video_result, clip_paths,
                   segment_durations, files, concat_calls, overlay_calls, outcome,
                   call, before, cleanup, music_file, soundtrack, generator,
                   outputs, playback, app>>

Next == StartRun \/ Submit \/ Poll \/ Store \/ Assemble \/ Mix \/ MixUnlink \/ MixReplace
            \/ PageFinish

Spec == Init /\ [][Next]_vars

\* ------------------------------- generate_video_from_structured_scene
RejectsEmpty_never(bts) == FALSE

\* if not beats: raise ValueError
RejectsEmpty(bts) == bts = <<>>

\* sorted(beats, key=lambda b: b.get("order", 0))
SortByOrder(bts) ==
    CHOOSE sorted \in [DOMAIN bts -> Range(bts)] :
        /\ Range(sorted) = Range(bts)
        /\ \A i, j \in DOMAIN sorted : i < j => sorted[i].order <= sorted[j].order

\* The call up to the rendering: dependencies, the beats.
StartStructured ==
    /\ pc = "idle"
    /\ generator' = "structured"
    /\ \E site \in CallSites, volume \in Volumes, b \in BeatArrays, m \in MusicArgs,
          deps_ok \in BOOLEAN :
        LET keywords == IF site = "page" THEN PageStructuredKeywords
                        ELSE StructuredParameters
        IN  /\ page' = IF site = "page" THEN Clicked(volume, FALSE) ELSE page
            /\ site = "page" => volume = session.video_music_volume
            /\ beats' = b
            /\ music_path' = m
            /\ IF ~Binds(keywords, StructuredParameters)
               THEN /\ pc' = "done"
                    /\ outcome' = Raised("TypeError: got an unexpected keyword argument")
               ELSE IF ~deps_ok
               THEN /\ pc' = "done"
                    /\ outcome' = Raised("Video dependencies not installed")
               ELSE IF RejectsEmpty(b)
               THEN /\ pc' = "done"
                    /\ outcome' = Raised("No beats found in structured scene")
               ELSE /\ pc' = "render"
                    /\ outcome' = outcome
    /\ UNCHANGED <<idx, seed_image_bytes, seed_image_data_url, requests, polls,
                   last_response, frames, video_result, clip_paths, segment_durations,
                   files, concat_calls, overlay_calls, call, before, cleanup,
                   music_file, soundtrack, session, outputs, playback, app>>

\* The music is opened when its file is there, one image clip is rendered per
\* beat in ascending order, and the video is written to the final path.
RenderStructured ==
    /\ pc = "render"
    /\ \E is_file \in BOOLEAN, audio_ok \in BOOLEAN, write_ok \in BOOLEAN :
        LET sorted_beats == SortByOrder(beats)
            video == Video([i \in DOMAIN sorted_beats |-> sorted_beats[i].order],
                           HasMusic(music_path, is_file))
        IN  /\ music_file' = IsFile(music_path, is_file)
            /\ IF HasMusic(music_path, is_file) /\ ~audio_ok
               THEN Abort("AudioFileClip could not read the music", files)
               ELSE IF ~write_ok
               THEN Abort("write_videofile failed", [files EXCEPT ![FinalPath] = Partial])
               ELSE Return([files EXCEPT ![FinalPath] = video])
    /\ UNCHANGED <<beats, music_path, idx, seed_image_bytes, seed_image_data_url,
                   requests, polls, last_response, frames, video_result, clip_paths,
                   segment_durations, concat_calls, overlay_calls, call, before,
                   soundtrack, generator, page,
                   session, outputs, playback, app>>

\* Both generators.
NextGenerators == Next \/ StartStructured \/ RenderStructured

SpecGenerators == Init /\ [][NextGenerators]_vars

\* ------------------------------------------ the page's playback section
\* The names the page's module binds: its imports and its own definitions.
PageNames ==
    {"annotations", "Path", "Optional", "st", "au", "AppState", "ButtonRow",
     "generate_video_from_structured_scene", "generate_video_with_sora",
     "mix_music_to_video", "VideoGenerationPage"}
\* Evaluating a name the module does not bind raises NameError.
NameBound(name) == name \in PageNames

\* The length VideoFileClip reads, or 0.0 when anything in the try block
\* raises (except Exception: return 0.0).
_probe_video_duration(seconds) ==
    IF NameBound("VideoFileClip") THEN seconds ELSE 0
\* The length AudioFileClip reads; when that raises, the length pydub reads;
\* when that raises too, 0.0.
_probe_audio_duration(seconds, pydub_ok) ==
    IF NameBound("AudioFileClip") THEN seconds
    ELSE IF pydub_ok THEN seconds ELSE 0
\* TRUE when st.warning is called, for a raw video and a music track of the
\* given lengths.
_warn_if_music_short(video_seconds, music_seconds, pydub_ok, delay, start_offset) ==
    LET video_duration == _probe_video_duration(video_seconds)
        music_duration == _probe_audio_duration(music_seconds, pydub_ok)
        remaining_music == Max(0, music_duration - start_offset)
        needed_music == IF video_duration # 0 THEN Max(0, video_duration - delay) ELSE 0
    IN  IF needed_music <= 0 THEN FALSE
        ELSE IF remaining_music <= 0 THEN TRUE
        ELSE remaining_music < needed_music

\* The mixer the page calls: it writes the mix to output_path and returns the
\* path, or raises and leaves the file at output_path as it was.
mix_music_to_video(out, raw_video_path, music, volume, delay, start_offset, ok) ==
    IF ok
    THEN [file |-> Mixed(raw_video_path, music, volume, delay, start_offset),
          raised |-> FALSE]
    ELSE [file |-> out, raised |-> TRUE]

\* The delay is left out of the comparison.
needs_refresh_ignores_delay(s, file, raw, music, volume, delay, start_offset) ==
    \/ Get(s, "video_music_preview_volume") # Num(volume)
    \/ Get(s, "video_music_preview_source") # raw
    \/ Get(s, "video_music_preview_music") # music
    \/ Get(s, "video_music_preview_start_offset") # Num(start_offset)
    \/ ~(Get(s, "video_music_preview_path") # None /\ file.exists)
\* One of the five cached parameters differs from the current one, or the
\* cached preview path is unset or its file is not there.
needs_refresh(s, file, raw, music, volume, delay, start_offset) ==
    \/ Get(s, "video_music_preview_volume") # Num(volume)
    \/ Get(s, "video_music_preview_source") # raw
    \/ Get(s, "video_music_preview_music") # music
    \/ Get(s, "video_music_preview_delay") # Num(delay)
    \/ Get(s, "video_music_preview_start_offset") # Num(start_offset)
    \/ ~(Get(s, "video_music_preview_path") # None /\ file.exists)

\* The session, the preview file, the returned path and what was done on the
\* way; warning is what the call of _warn_if_music_short does.
_build_music_preview(s, file, raw, music, volume, delay, start_offset, warning, mix_ok) ==
    IF needs_refresh(s, file, raw, music, volume, delay, start_offset)
    THEN LET warned == warning
             mix == mix_music_to_video(file, raw, music, volume, delay,
                                       start_offset, mix_ok)
         IN  IF mix.raised
             THEN [session |-> s, file |-> mix.file, path |-> None,
                   mix_attempted |-> TRUE, warned |-> warned]
             ELSE [session |->
                      PutAll(s, [video_music_preview_path |-> PreviewPath,
                                 video_music_preview_volume |-> Num(volume),
                                 video_music_preview_source |-> raw,
                                 video_music_preview_music |-> music,
                                 video_music_preview_delay |-> Num(delay),
                                 video_music_preview_start_offset |-> Num(start_offset)]),
                   file |-> mix.file, path |-> PreviewPath,
                   mix_attempted |-> TRUE, warned |-> warned]
    ELSE [session |-> s, file |-> file, path |-> Get(s, "video_music_preview_path"),
          mix_attempted |-> FALSE, warned |-> FALSE]

\* The export path is kept whatever the volume.
SetVolume_keeps_export(s, volume) ==
    PutAll(s, [video_music_volume |-> volume, video_export_volume |-> Num(volume)])
\* The slider stores its position; the export path is dropped when the volume
\* stored with it differs; the current volume is stored.
SetVolume(s, volume) ==
    LET stale == /\ Get(s, "video_export_volume") # None
                 /\ Get(s, "video_export_volume") # Num(volume)
    IN  PutAll(IF stale THEN PopAll(s, {"video_export_path"}) ELSE s,
               [video_music_volume |-> volume, video_export_volume |-> Num(volume)])

\* Positions of the delay and the start offset inputs, and the length of the
\* raw video, in seconds.
Delays == {0, 20}
Offsets == {0, 6}
VideoLengths == {20}
\* The length of the music track, in seconds.
TrackLengths == {24}
\* What the click on Export does: no click, a mix that succeeds, one that
\* raises.
ExportClicks == {"none", "ok", "failed"}

\* In dev mode a page without a video asset gets the default one.
SeedDevDefaults ==
    /\ pc = "idle"
    /\ page.at = "idle"
    /\ page.video_asset.status = "none"
    /\ page' = [page EXCEPT !.video_asset = ReadyAsset(session.video_music_volume)]
    /\ UNCHANGED <<run_vars_but_page, call, session, outputs, playback, app>>

\* The rest of the script run for a page with a video asset: one run of
\* _render_playback.  Without music and raw video only the raw preview is
\* shown; with them the controls are read, the preview is built and the export
\* is made when its button was clicked.  The script run ends here, and with
\* it the locals of render.
RenderPlayback ==
    /\ pc \in {"idle", "done"}
    /\ page.at \in {"idle", "shown"}
    /\ page.video_asset.status # "none"
    /\ \/ /\ playback' = NoPlayback
          /\ page' = [page EXCEPT !.at = "idle", !.music_volume = 0, !.message = ""]
          /\ UNCHANGED <<session, outputs>>
       \/ \E raw \in RawSources, music \in MusicSources,
             volume \in Volumes, delay \in Delays, start_offset \in Offsets,
             video_seconds \in VideoLengths, music_seconds \in TrackLengths,
             kept \in BOOLEAN, mix_ok \in BOOLEAN, click \in ExportClicks :
          \E warning \in {_warn_if_music_short(video_seconds, music_seconds, pydub_ok,
                                               delay, start_offset) :
                                pydub_ok \in BOOLEAN} :
            LET s1 == PutAll(SetVolume(session, volume),
                             [video_music_delay |-> delay,
                              video_music_start_offset |-> start_offset])
                found == IF kept THEN outputs.preview ELSE NoMix
                built == _build_music_preview(s1, found, raw, music, volume, delay,
                                              start_offset, warning, mix_ok)
                export == IF click = "none"
                          THEN [file |-> outputs.export, raised |-> TRUE]
                          ELSE mix_music_to_video(outputs.export, raw, music, volume,
                                                  delay, start_offset, click = "ok")
            IN  /\ session' = IF export.raised THEN built.session
                               ELSE PutAll(built.session,
                                           [video_export_path |-> ExportPath,
                                            video_export_volume |-> Num(volume)])
                /\ outputs' = [preview |-> built.file, export |-> export.file]
                /\ page' = [page EXCEPT !.at = "idle", !.music_volume = 0,
                                        !.message = "",
                                        !.video_asset.music_volume =
                                            IF export.raised THEN @ ELSE volume]
                /\ playback' = [with_music |-> TRUE, source |-> raw, music |-> music,
                                found |-> found.exists,
                                warned |-> built.warned,
                                mix_attempted |-> built.mix_attempted,
                                preview_path |-> built.path]
    /\ pc' = "idle"
    /\ beats' = <<>>
    /\ music_path' = "none"
    /\ idx' = 0
    /\ seed_image_bytes' = NoImage
    /\ seed_image_data_url' = NoImage
    /\ outcome' = NoOutcome
    /\ generator' = "none"
    /\ UNCHANGED <<requests, polls, last_response, frames, video_result, clip_paths,
                   segment_durations, files, concat_calls, overlay_calls, call,
                   before, cleanup, music_file, soundtrack, app>>

\* The click on Generate with the Sora generator selected, for a scene of one
\* beat.
PageGenerate == StartRun /\ page'.at = "handler" /\ Len(beats') = 1

NextPlayback == SeedDevDefaults \/ RenderPlayback \/ PageGenerate \/ PageFinish

SpecPlayback == Init /\ [][NextPlayback]_vars

\* ------------------------------------------ the pages and the scene
\* script_text.strip() is empty.
Blank(text) == text \in {"", " "}

\* app.py: in dev mode a session without a script gets the sample script,
\* once.
_maybe_seed_dev_script(a, dev_mode) ==
    IF dev_mode /\ ~a.dev_script_loaded /\ a.script_text = ""
    THEN [a EXCEPT !.script_text = DevScript, !.dev_script_loaded = TRUE]
    ELSE a

\* The session's scene is written to src/output/structured_scene.json, when
\* there is one.
save_structured_scene(a) ==
    IF a.structured_scene = None THEN a
    ELSE [a EXCEPT !.snapshot = a.structured_scene]

\* The snapshot is put into the session only when the session has no scene.
load_structured_scene_if_unset(a) ==
    IF a.snapshot = None \/ a.structured_scene # None THEN a
    ELSE [a EXCEPT !.structured_scene = a.snapshot]
\* The snapshot on disk, when there is one, becomes the session's scene.
load_structured_scene(a) ==
    IF a.snapshot = None THEN a
    ELSE [a EXCEPT !.structured_scene = a.snapshot]
load_or_init_structured_scene(a) == load_structured_scene(a)

\* The scene a regeneration brings: the preset in dev mode, the next scene
\* of the language model otherwise.
Regenerated(a, dev_mode) ==
    IF dev_mode THEN DevScene ELSE Generated(a.generated + 1)
\* What a page run found when it looked whether to regenerate.
Found(a, op, text, attempted, failed) ==
    [op |-> op, text |-> text, scene |-> a.structured_scene,
     character_assets |-> a.character_assets,
     background_asset |-> a.background_asset, source_text |-> a.source_text,
     attempted |-> attempted, failed |-> failed]

\* The source text is stored before the language model is called.
_maybe_regenerate_structure_marks_first(a, script_text, dev_mode, gen_ok) ==
    IF Blank(script_text)
    THEN [a EXCEPT !.last = Found(a, "script", script_text, FALSE, FALSE)]
    ELSE IF script_text = a.source_text /\ a.structured_scene # None
    THEN [a EXCEPT !.last = Found(a, "script", script_text, FALSE, FALSE)]
    ELSE IF dev_mode \/ gen_ok
    THEN save_structured_scene(
            [a EXCEPT !.structured_scene = Regenerated(a, dev_mode),
                      !.character_assets = <<>>,
                      !.background_asset = None,
                      !.source_text = script_text,
                      !.generated = IF dev_mode THEN @ ELSE @ + 1,
                      !.last = Found(a, "script", script_text, TRUE, FALSE)])
    ELSE [a EXCEPT !.source_text = script_text,
                   !.last = Found(a, "script", script_text, TRUE, TRUE)]
\* ScriptPage._maybe_regenerate_structure(script_text): nothing for a blank
\* text or for the text the scene was made from; otherwise the scene is
\* replaced, the assets are cleared, the source text is stored and the scene
\* is saved, all after generate_structured_scene returned.
_maybe_regenerate_structure(a, script_text, dev_mode, gen_ok) ==
    IF Blank(script_text)
    THEN [a EXCEPT !.last = Found(a, "script", script_text, FALSE, FALSE)]
    ELSE IF script_text = a.source_text /\ a.structured_scene # None
    THEN [a EXCEPT !.last = Found(a, "script", script_text, FALSE, FALSE)]
    ELSE IF dev_mode \/ gen_ok
    THEN save_structured_scene(
            [a EXCEPT !.structured_scene = Regenerated(a, dev_mode),
                      !.character_assets = <<>>,
                      !.background_asset = None,
                      !.source_text = script_text,
                      !.generated = IF dev_mode THEN @ ELSE @ + 1,
                      !.last = Found(a, "script", script_text, TRUE, FALSE)])
    ELSE [a EXCEPT !.last = Found(a, "script", script_text, TRUE, TRUE)]

\* CharacterGenerationPage._sync_structure_with_script: the same test on the
\* session's script; the scene and the source text are stored, nothing is
\* saved.
_sync_structure_with_script(a, dev_mode, gen_ok) ==
    LET script_text == a.script_text
    IN  IF Blank(script_text)
        THEN [a EXCEPT !.last = Found(a, "character", script_text, FALSE, FALSE)]
        ELSE IF ~(script_text # a.source_text \/ a.structured_scene = None)
        THEN [a EXCEPT !.last = Found(a, "character", script_text, FALSE, FALSE)]
        ELSE IF dev_mode \/ gen_ok
        THEN [a EXCEPT !.structured_scene = Regenerated(a, dev_mode),
                       !.source_text = script_text,
                       !.generated = IF dev_mode THEN @ ELSE @ + 1,
                       !.last = Found(a, "character", script_text, TRUE, FALSE)]
        ELSE [a EXCEPT !.last = Found(a, "character", script_text, TRUE, TRUE)]

\* The start of every run of the Script page: the dev script, then the dev
\* preset for a session without a scene.
ScriptEntered(a, dev_mode) ==
    LET seeded == [_maybe_seed_dev_script(a, dev_mode) EXCEPT !.last = NoLast]
    IN  IF dev_mode /\ seeded.structured_scene = None
        THEN [seeded EXCEPT !.structured_scene = DevScene]
        ELSE seeded

\* The Script page is rendered and nothing is entered.
ScriptVisit ==
    /\ \E dev_mode \in BOOLEAN : app' = ScriptEntered(app, dev_mode)
    /\ UNCHANGED <<run_vars, call>>

\* A chat prompt: the reply of the model becomes the script.
ChatReply ==
    /\ app.generated < MaxScenes
    /\ \E dev_mode \in BOOLEAN, reply \in Texts \ {""}, gen_ok \in BOOLEAN :
        app' = [_maybe_regenerate_structure(
                    [ScriptEntered(app, dev_mode) EXCEPT !.script_text = reply],
                    reply, dev_mode, gen_ok) EXCEPT !.last.op = "chat"]
    /\ UNCHANGED <<run_vars, call>>

\* The click on Load Sample Script.
LoadSampleScript ==
    /\ app.generated < MaxScenes
    /\ \E dev_mode \in BOOLEAN, sample \in Texts \ {"", " "}, gen_ok \in BOOLEAN :
        app' = [_maybe_regenerate_structure(
                    [ScriptEntered(app, dev_mode) EXCEPT !.script_text = sample],
                    sample, dev_mode, gen_ok) EXCEPT !.last.op = "sample"]
    /\ UNCHANGED <<run_vars, call>>

\* The script editor holds another text than the session.
EditScript ==
    /\ app.generated < MaxScenes
    /\ \E dev_mode \in BOOLEAN, updated_text \in Texts, gen_ok \in BOOLEAN :
        LET a == ScriptEntered(app, dev_mode)
        IN  /\ updated_text # a.script_text
            /\ app' = [_maybe_regenerate_structure(
                            [a EXCEPT !.script_text = updated_text],
                            updated_text, dev_mode, gen_ok) EXCEPT !.last.op = "editor"]
    /\ UNCHANGED <<run_vars, call>>

\* The click on Confirm & Generate Structured JSON.
ConfirmGenerate ==
    /\ app.generated < MaxScenes
    /\ \E dev_mode \in BOOLEAN, gen_ok \in BOOLEAN :
        LET a == ScriptEntered(app, dev_mode)
        IN  app' = IF gen_ok
                   THEN save_structured_scene(
                            [a EXCEPT !.structured_scene = Generated(a.generated + 1),
                                      !.character_assets = <<>>,
                                      !.background_asset = None,
                                      !.source_text = a.script_text,
                                      !.generated = @ + 1,
                                      !.last = Found(a, "confirm", a.script_text,
                                                     TRUE, FALSE)])
                   ELSE [a EXCEPT !.last = Found(a, "confirm", a.script_text,
                                                  TRUE, TRUE)]
    /\ UNCHANGED <<run_vars, call>>

\* The Character Generation page is rendered.
CharacterVisit ==
    /\ app.generated < MaxScenes
    /\ \E dev_mode \in BOOLEAN, gen_ok \in BOOLEAN :
        LET a == [_maybe_seed_dev_script(app, dev_mode) EXCEPT !.last = NoLast]
        IN  app' = IF a.script_text = "" THEN a
                   ELSE _sync_structure_with_script(a, dev_mode, gen_ok)
    /\ UNCHANGED <<run_vars, call>>

\* The Music page or the Video page is rendered: _load_scene takes the
\* session's scene when there is one, and loads the snapshot otherwise.
MediaVisit ==
    /\ \E dev_mode \in BOOLEAN :
        app' = load_structured_scene_if_unset(
                    [_maybe_seed_dev_script(app, dev_mode) EXCEPT !.last = NoLast])
    /\ UNCHANGED <<run_vars, call>>

\* The Structured JSON page is rendered: the snapshot is loaded, then the dev
\* preset is set for a session without a scene.
StructuredJSONVisit ==
    /\ \E dev_mode \in BOOLEAN :
        LET a == load_or_init_structured_scene(
                    [_maybe_seed_dev_script(app, dev_mode) EXCEPT !.last = NoLast])
        IN  app' = IF dev_mode /\ a.structured_scene = None
                   THEN [a EXCEPT !.structured_scene = DevScene]
                   ELSE a
    /\ UNCHANGED <<run_vars, call>>

NextScene == ScriptVisit \/ ChatReply \/ LoadSampleScript \/ EditScript
                \/ ConfirmGenerate \/ CharacterVisit \/ MediaVisit
                \/ StructuredJSONVisit

SpecScene == Init /\ [][NextScene]_vars

\* ------------------------------------------ the duration functions alone
DurationArgs == (0 - MaxQuarter)..MaxQuarter

InitDuration ==
    /\ RunInit
    /\ call \in {[fn |-> "argument", arg |-> d, ret |-> 0] : d \in DurationArgs}

\* _quantize_sora_duration applied to the argument (quarter seconds).
CallQuantize ==
    /\ call.fn = "argument"
    /\ call' = [fn |-> "_quantize_sora_duration", arg |-> call.arg,
                ret |-> _quantize_sora_duration(call.arg)]
    /\ UNCHANGED <<run_vars, app>>

NextDuration == CallQuantize

SpecDuration == InitDuration /\ [][NextDuration]_vars


\* ------------------------------------------------------------------ claims
IsAscending(seq) == \A i, j \in DOMAIN seq : i < j => seq[i] < seq[j]

RequestedBeats == [i \in DOMAIN requests |-> requests[i].beat]

\* C1: in the per-beat pipeline the requests are submitted in ascending beat
\* order and the assembled raw video holds the clips in ascending beat order,
\* whatever the order of the beats array.
C1_BeatOrder ==
    idx > 0 =>
        /\ IsAscending(RequestedBeats)
        /\ (pc = "done" /\ outcome = Returned) => IsAscending(files[RawPath].clips)

\* C2: for every request k >= 2 of a per-beat run whose predecessor's
\* last-frame extraction succeeded, the reference image of request k is the
\* last frame of the clip of request k-1 (as bytes): not the composite, not
\* the frame of an earlier clip.
C2_ContinuityChaining ==
    idx > 0 =>
        \A k \in 2..Len(requests) :
            frames[k - 1] # NoImage =>
                requests[k].reference = <<"bytes", "frame", requests[k - 1].beat>>

\* Three requests, both extractions succeeded, the run began with the
\* composite: the third request carries the frame of the second clip.
C2_Witness ==
    /\ Len(requests) = 3
    /\ frames[1] # NoImage /\ frames[2] # NoImage
    /\ requests[1].reference = Composite
    /\ requests[2].reference = <<"bytes", "frame", requests[1].beat>>
    /\ requests[3].reference = <<"bytes", "frame", requests[2].beat>>

\* C3: _quantize_sora_duration(d) is 4 for d <= 6, 8 for 6 < d <= 10 and 12
\* for d > 10, so always one of 4, 8, 12 (5 -> 4, 6 -> 4, 7 -> 8, 10 -> 8,
\* 11 -> 12).
C3_Quantize ==
    call.fn = "_quantize_sora_duration" =>
        /\ call.ret \in {4, 8, 12}
        /\ call.arg <= Q(6) => call.ret = 4
        /\ (Q(6) < call.arg /\ call.arg <= Q(10)) => call.ret = 8
        /\ call.arg > Q(10) => call.ret = 12
        /\ call.arg = Q(5) => call.ret = 4
        /\ call.arg = Q(6) => call.ret = 4
        /\ call.arg = Q(7) => call.ret = 8
        /\ call.arg = Q(10) => call.ret = 8
        /\ call.arg = Q(11) => call.ret = 12

\* The function was applied to a quarter second past 6 s and gave 8.
C3_Witness ==
    /\ call.fn = "_quantize_sora_duration"
    /\ call.arg = Q(6) + 1
    /\ call.ret = 8

\* The duration the claim gives for a beat: from padded_duration_seconds when
\* present, else from duration_seconds plus the buffer max(1, 25 %), else from
\* the per-beat fallback; quantized.
ClaimedDuration(beat) ==
    IF IsNumber(beat.padded_duration_seconds)
    THEN _quantize_sora_duration(Q(beat.padded_duration_seconds[2]))
    ELSE IF beat.padded_duration_seconds = None /\ IsNumber(beat.duration_seconds)
    THEN _quantize_sora_duration(Q(beat.duration_seconds[2])
                                 + Max(Q(1), beat.duration_seconds[2]))
    ELSE IF beat.padded_duration_seconds = None
    THEN _quantize_sora_duration(Q(seconds_per_beat) + Max(Q(1), seconds_per_beat))
    ELSE _quantize_sora_duration(Q(seconds_per_beat))

C5_NoMusicNoMixer ==
    music_path = "none" =>
        /\ overlay_calls = 0
        /\ pc # "mix"
        /\ (pc = "done" /\ outcome = Returned) =>
              IF idx > 0
              THEN /\ files[FinalPath] = Video(RequestedBeats, FALSE)
                   /\ files[FinalPath] = files[RawPath]
              ELSE files[FinalPath] = Clip(0)

\* A run of two beats without music that returned.
C5_Witness ==
    /\ music_path = "none" /\ pc = "done" /\ outcome = Returned
    /\ Len(beats) = 2 /\ concat_calls = 1 /\ overlay_calls = 0
    /\ files[FinalPath] = files[RawPath]

TimedOut == Raised("Sora job timed out waiting for completion")

\* C6: polling one job issues at most PollAttempts status requests: every
\* answer that is not terminal uses up one attempt, and the answer to the
\* last attempt ends the loop, with the timeout error when it is still not
\* terminal.
C6_PollingTerminates ==
    /\ [](polls < PollAttempts)
    /\ [][(pc = "poll" /\ pc' = "poll") => polls' = polls + 1]_vars
    /\ [][(pc = "poll" /\ polls = PollAttempts - 1) =>
            /\ pc' \in {"store", "done"}
            /\ last_response'.state = "queued" => (pc' = "done" /\ outcome' = TimedOut)]_vars

\* A job that was never terminal: the run ended with the timeout error.
C6_Witness ==
    /\ pc = "done"
    /\ last_response.state = "queued"
    /\ outcome = TimedOut

\* C7: a status answer with a terminal failure state (failed, error) ends the
\* call at once with an error: no further status request, and the job is not
\* submitted again (no beat is ever requested twice, a finished run sends
\* nothing).
C7_FailureIsFinal ==
    /\ [](last_response.state \in FailureStates =>
            (pc = "done" /\ outcome = Raised("Sora job failed")))
    /\ [](\A i, j \in DOMAIN requests : requests[i].beat = requests[j].beat => i = j)
    /\ [][pc = "done" => UNCHANGED <<requests, polls, last_response>>]_vars

\* The job of the first of two beats answered "error" after some polls.
C7_Witness ==
    /\ last_response.state = "error"
    /\ pc = "done"
    /\ Len(beats) = 2 /\ Len(requests) = 1

\* C8: a status answer with a successful terminal state and no media at any
\* of the places tried ends the call with an error; with media somewhere the
\* call returns media that the answer offers.  It never returns nothing and
\* never polls on.
C8_EmptyResultIsError ==
    last_response.state \in SuccessStates =>
        IF last_response.avail = {}
        THEN pc = "done" /\ outcome = Raised("Sora completed but no video url")
        ELSE pc = "store" /\ video_result # NoResult /\ video_result[2] \in last_response.avail

\* A job answered "completed" with no media anywhere.
C8_Witness ==
    /\ last_response.state = "completed"
    /\ last_response.avail = {}
    /\ pc = "done"
    /\ outcome = Raised("Sora completed but no video url")

\* The remote job of the current request failed: the submission was rejected
\* or gave no job, a status request was refused, the job ended in a failure
\* state or without media, or the polling ran out of attempts.
JobFailed ==
    \/ last_response.state \in {"no_api_key", "rejected", "no_id", "http_error"}
    \/ last_response.state \in FailureStates
    \/ last_response.state \in SuccessStates /\ last_response.avail = {}
    \/ last_response.state = "queued" /\ pc # "poll"

\* C9: when the remote job of beat k fails, the run ends with the error: no
\* request for a later beat has been or will be sent, and neither the clip
\* assembler nor the mixer is invoked.
C9_FailureAborts ==
    /\ [](JobFailed =>
            /\ pc = "done" /\ outcome.status = "raised"
            /\ concat_calls = 0 /\ overlay_calls = 0
            /\ Len(requests) <= Max(idx, 1))
    /\ [][pc = "done" => UNCHANGED <<requests, concat_calls, overlay_calls, outcome>>]_vars

\* The job of the first of two beats failed: one request, nothing assembled.
C9_Witness ==
    /\ JobFailed
    /\ last_response.state = "rejected"
    /\ Len(beats) = 2 /\ idx = 1 /\ Len(requests) = 1
    /\ pc = "done" /\ outcome = Raised("Sora submit failed")

\* The stage an error text names, "" when it names none.
StageNamed(error) ==
    IF error \in {"Sora submit failed", "Sora response missing job id"} THEN "submission"
    ELSE IF error \in {"Sora poll failed", "Sora job failed",
                       "Sora completed but no video url",
                       "Sora job timed out waiting for completion"} THEN "polling"
    ELSE ""

\* C10: every error of a per-beat run that reaches the entry point
\* carries the order of the beat that failed and names its stage.
C10_ErrorNamesBeatAndStage ==
    (outcome.status = "raised" /\ idx > 0) =>
        /\ outcome.beat = {beats[idx].order}
        /\ StageNamed(outcome.error) # ""

\* The error texts of the steps of a run: dependencies, vision, the remote
\* client, the download, the assembler and the mixer.
StepErrors ==
    {"Video dependencies not installed", "Vision describe failed",
     "OPENAI_API_KEY environment variable not set", "Sora submit failed",
     "Sora response missing job id", "Sora poll failed", "Sora job failed",
     "Sora completed but no video url",
     "Sora job timed out waiting for completion", "Download failed",
     "VideoFileClip could not read a segment", "write_videofile failed",
     "VideoFileClip could not read the video",
     "AudioFileClip could not read the music", "replace failed"}

\* C11: whenever the per-beat run is left, with a result or with the error of
\* any beat or stage, the cleanup pass has run and has tried to unlink every
\* segment file the run made (a segment file that is still there is one whose
\* unlink failed); the outcome is the run's own: a result exactly when the
\* final video was made, else the error of the step that failed.
C11_CleanupOnEveryExit ==
    (pc = "done" /\ idx > 0) =>
        /\ cleanup.ran
        /\ cleanup.attempted = {SegPath(i) : i \in 1..Len(clip_paths)}
        /\ \A p \in SegPaths : files[p] # Absent => p \in cleanup.failed
        /\ outcome = Returned <=> files[FinalPath].kind = "video"
        /\ outcome # Returned => outcome.status = "raised" /\ outcome.error \in StepErrors

\* The job of the second beat failed and the unlink of the first segment
\* failed too: the file stays, the error is the job's.
C11_Witness ==
    /\ pc = "done" /\ idx = 2
    /\ outcome = Raised("Sora job failed")
    /\ cleanup.ran
    /\ cleanup.attempted = {SegPath(1)}
    /\ cleanup.failed = {SegPath(1)}
    /\ files[SegPath(1)] # Absent

\* C12: when the encoder fails while the mixer writes the video with music,
\* the file at the final output path is as it was before the run (there, or
\* not there).
C12_EncoderFailureLeavesFinal ==
    (outcome = Raised("write_videofile failed") /\ overlay_calls > 0) =>
        files[FinalPath] = before[FinalPath]

\* The encoder failed in the mixer while an earlier run's final video was
\* there: it still is, next to the partial temporary file.
C12_Witness ==
    /\ outcome = Raised("write_videofile failed") /\ overlay_calls = 1
    /\ before[FinalPath] = Previous
    /\ files[FinalPath] = Previous
    /\ files[TempPath] = Partial

\* C13: at every step of the mixer the final output path holds the complete
\* previous file or the complete new one, and never nothing when there was a
\* file before.
C13_AtomicReplace ==
    overlay_calls > 0 =>
        /\ files[FinalPath] \in {before[FinalPath], Video(files[RawPath].clips, TRUE)}
        /\ before[FinalPath] # Absent => files[FinalPath] # Absent

\* C14: no step of the mixer changes the raw file, whether the mix succeeds
\* or fails.
C14_RawUnchangedByMix ==
    [][(pc \in {"mix", "mix_unlink", "mix_replace"}) =>
            (files'[RawPath] = files[RawPath])]_vars

\* A per-beat run with music returned: the raw file is the assembled video
\* without music, the final file has the music.
C14_Witness ==
    /\ pc = "done" /\ outcome = Returned /\ overlay_calls = 1
    /\ Len(beats) = 2
    /\ files[RawPath] = Video(RequestedBeats, FALSE)
    /\ files[FinalPath] = Video(RequestedBeats, TRUE)

\* C15: after generate_video_with_sora returned, the final path and the raw
\* path both name a file.
C15_BothPathsExist ==
    (pc = "done" /\ outcome = Returned /\ generator = "sora") =>
        /\ files[FinalPath] # Absent
        /\ files[RawPath] # Absent

\* C16: a run that was given a music path whose file is missing ends with an
\* error.
C16_MissingMusicFails ==
    (pc = "done" /\ music_file = "missing") => outcome.status = "raised"

\* C16, amended: a music path whose file is missing makes the run skip the
\* mixing: the mixer is not invoked, the run returns, and the final video is
\* the raw video without music.  Music that is a file but cannot be read makes
\* the mixer raise, and the final path stays as it was.
C16_MissingMusicSkipsMixing ==
    /\ music_file = "missing" =>
            /\ music_path = "path"
            /\ overlay_calls = 0
            /\ pc = "done" /\ outcome = Returned
            /\ files[FinalPath].kind \in {"video", "clip"}
            /\ ~files[FinalPath].music
    /\ outcome = Raised("AudioFileClip could not read the music") =>
            /\ music_file = "file"
            /\ overlay_calls = 1
            /\ files[FinalPath] = before[FinalPath]

\* A per-beat run with a music path that names no file returned a video
\* without music.
C16_Witness ==
    /\ music_path = "path" /\ music_file = "missing"
    /\ pc = "done" /\ outcome = Returned
    /\ Len(beats) = 2 /\ overlay_calls = 0
    /\ files[FinalPath] = Video(RequestedBeats, FALSE)

\* C17: when the music track is shorter than the target duration of the mix,
\* music sounds during the whole target duration.
C17_MusicLooped ==
    (soundtrack.track > 0 /\ soundtrack.track < soundtrack.target) =>
        soundtrack.audible = soundtrack.target

\* C18: neither generator works on a scene without beats: the call is
\* rejected with an error, with no request sent and no output file written.
C18_ZeroBeatsRejected ==
    (generator # "none" /\ beats = <<>>) =>
        /\ requests = <<>>
        /\ files = before
        /\ pc = "done" => outcome.status = "raised"

\* C18, amended: generate_video_from_structured_scene rejects a scene without
\* beats with an error, before any request is sent or any output file is
\* written; generate_video_with_sora does not reject it but makes a single
\* request for the whole scene, of seconds_per_beat seconds.
C18_ZeroBeatsStructuredOnly ==
    /\ (generator = "structured" /\ beats = <<>>) =>
            /\ pc = "done" /\ outcome.status = "raised"
            /\ requests = <<>>
            /\ files = before
    /\ (generator = "sora" /\ beats = <<>>) =>
            /\ Len(requests) <= 1
            /\ \A i \in DOMAIN requests :
                    requests[i].beat = 0 /\ requests[i].seconds = seconds_per_beat
            /\ (pc = "done" /\ outcome = Returned) =>
                    Len(requests) = 1 /\ files[FinalPath].clips = <<0>>

\* generate_video_with_sora returned for a scene without beats, after one
\* request.
C18_Witness ==
    /\ generator = "sora" /\ beats = <<>>
    /\ pc = "done" /\ outcome = Returned
    /\ Len(requests) = 1
    /\ files[FinalPath] # before[FinalPath]

\* C19: a click on Generate whose calls of the environment all succeed ends
\* with a video asset of status ready, made with the volume chosen on the page.
C19_ControlsApplied ==
    (page.at = "shown" /\ outcome.error \notin StepErrors) =>
        /\ page.video_asset.status = "ready"
        /\ overlay_calls > 0 => MusicVolume = page.music_volume

\* C20: when the extraction of the last frame of segment k fails, the run
\* goes on with the next beat (no error), and the request of beat k+1 carries
\* the reference image the request of beat k carried.
C20_ExtractionFallback ==
    /\ [](idx > 0 =>
            \A k \in DOMAIN frames :
                (frames[k] = NoImage /\ k + 1 <= Len(requests)) =>
                    requests[k + 1].reference = requests[k].reference)
    /\ [][(pc = "store" /\ idx > 0 /\ idx < Len(beats) /\ Len(frames') = Len(frames) + 1
            /\ frames'[Len(frames')] = NoImage) =>
                (pc' = "submit" /\ idx' = idx + 1 /\ outcome' = outcome)]_vars

\* The extraction of the first segment's last frame failed: the second
\* request carries the composite image again.
C20_Witness ==
    /\ Len(requests) >= 2
    /\ frames[1] = NoImage
    /\ requests[1].reference = Composite
    /\ requests[2].reference = Composite

\* C23: the segments are made one after the other: a clip is stored only from
\* a job that ended successfully (or an inline result); at most one request
\* is ahead of the stored clips; a request for a further beat is sent only when
\* the clips of all earlier requests are stored and the reference image was
\* updated after each; the reference image is written only when a segment
\* completes, once per segment.
C23_Serialized ==
    /\ [](pc = "store" =>
            /\ last_response.state \in SuccessStates \cup {"inline"}
            /\ video_result # NoResult)
    /\ [](idx > 0 =>
            /\ Len(clip_paths) = Len(frames)
            /\ Len(frames) <= Len(requests)
            /\ Len(requests) <= Len(frames) + 1)
    /\ [][(idx > 0 /\ Len(requests') > Len(requests)) =>
            /\ pc = "submit"
            /\ Len(frames) = Len(requests)
            /\ \A k \in 1..Len(requests) : files[SegPath(k)] = Clip(requests[k].beat)]_vars
    /\ [][(pc # "idle" /\ seed_image_bytes' # seed_image_bytes) =>
            (pc = "store" /\ Len(frames') = Len(frames) + 1)]_vars

\* Three beats were requested one after the other, each after the clip of the
\* one before was stored and its last frame taken.
C23_Witness ==
    /\ Len(requests) = 3 /\ Len(frames) = 2 /\ pc = "poll"
    /\ frames[1] # NoImage /\ frames[2] # NoImage
    /\ files[SegPath(1)] # Absent /\ files[SegPath(2)] # Absent
    /\ seed_image_bytes = frames[2]

\* The place of a source in the order of preference: the URL in the status
\* answer itself (video/result, then the data items), the download URL of a
\* listed file, the content of a listed file, the content endpoint of the job.
Preference(source) ==
    CASE source \in {"embedded", "data_item"} -> 1
      [] source = "file_url" -> 2
      [] source = "file_content" -> 3
      [] source = "job_content" -> 4

\* C24: from a successful status answer the client returns media of an
\* available source, and no source that comes earlier in the order of
\* preference is available (a URL of the answer itself, the download URL of a
\* listed file, fetched file content, the content endpoint).
C24_PreferenceOrder ==
    (pc = "store" /\ last_response.state \in SuccessStates) =>
        /\ video_result[2] \in last_response.avail
        /\ \A other \in last_response.avail :
                Preference(video_result[2]) <= Preference(other)
        /\ video_result[1] = (IF Preference(video_result[2]) <= 2 THEN "url" ELSE "bytes")

\* A job whose answer offered file content and the content endpoint, and no
\* URL: the file content was returned.
C24_Witness ==
    /\ pc = "store"
    /\ last_response.state = "completed"
    /\ last_response.avail = {"file_content", "job_content"}
    /\ video_result = <<"bytes", "file_content">>

\* The states a status answer can have (a submission answer has none of them).
PollStates == {"http_error", "queued"} \cup FailureStates \cup SuccessStates

\* C25: a status request is issued only for a submission that was accepted,
\* carried no inline URL and named a job; an inline URL is returned without
\* any status request, and a rejected submission or one without job id fails
\* without any.
C25_PollOnlyAfterJob ==
    /\ [][last_response'.state \in PollStates =>
            (pc = "poll" /\ last_response.state \in {"job", "queued"})]_vars
    /\ [](pc = "poll" => last_response.state = (IF polls = 0 THEN "job" ELSE "queued"))
    /\ [](last_response.state = "inline" =>
            (pc = "store" /\ video_result = <<"url", "inline">> /\ polls = 0))
    /\ [](last_response.state \in {"rejected", "no_id"} =>
            (pc = "done" /\ outcome.status = "raised" /\ polls = 0))

\* The submission of the second beat was answered with an inline URL.
C25_Witness ==
    /\ last_response.state = "inline"
    /\ Len(requests) = 2
    /\ pc = "store" /\ video_result = <<"url", "inline">>

\* C21: before a preview mix the page warns exactly when the video time that
\* remains after the start delay is positive and the music that remains after
\* the start offset is shorter than it.
C21_WarnsWhenMusicShort ==
    (playback.with_music /\ playback.mix_attempted) =>
        (playback.warned <=>
            \E v \in VideoLengths, m \in TrackLengths :
                /\ v - session.video_music_delay > 0
                /\ Max(0, m - session.video_music_start_offset)
                        < v - session.video_music_delay)

\* A step of RenderPlayback that got as far as the preview with music.
RenderedWithMusic == page'.at = "idle" /\ page.video_asset.status # "none"
                        /\ playback'.with_music
\* The five cached parameters of the preview equal the current ones.
CacheIsCurrent ==
    /\ Get(session, "video_music_preview_source") = playback.source
    /\ Get(session, "video_music_preview_music") = playback.music
    /\ Get(session, "video_music_preview_volume") = Num(session.video_music_volume)
    /\ Get(session, "video_music_preview_delay") = Num(session.video_music_delay)
    /\ Get(session, "video_music_preview_start_offset")
            = Num(session.video_music_start_offset)
CachedPreview(s) == [key \in PreviewKeys |-> Get(s, key)]

\* C28: when _build_music_preview returns a path the cached parameters equal
\* the current ones and the preview file is the mix of them; the preview is
\* mixed again exactly when one of the five cached parameters differs from
\* the current one or the preview is missing; a mix that fails returns no
\* path and leaves the cache keys as they were.
C28_PreviewCache ==
    [][RenderedWithMusic =>
        /\ playback'.preview_path # None =>
                /\ CacheIsCurrent'
                /\ outputs'.preview =
                        Mixed(playback'.source, playback'.music,
                              session'.video_music_volume, session'.video_music_delay,
                              session'.video_music_start_offset)
        /\ playback'.mix_attempted <=>
                \/ Get(session, "video_music_preview_source") # playback'.source
                \/ Get(session, "video_music_preview_music") # playback'.music
                \/ Get(session, "video_music_preview_volume") # Num(session'.video_music_volume)
                \/ Get(session, "video_music_preview_delay") # Num(session'.video_music_delay)
                \/ Get(session, "video_music_preview_start_offset")
                        # Num(session'.video_music_start_offset)
                \/ Get(session, "video_music_preview_path") = None
                \/ ~playback'.found
        /\ (playback'.mix_attempted /\ playback'.preview_path = None) =>
                CachedPreview(session') = CachedPreview(session)]_vars
\* A preview was returned from the cache after a change of the delay had
\* made the page mix it again.
C28_Witness ==
    /\ playback.with_music
    /\ ~playback.mix_attempted
    /\ playback.preview_path = PreviewPath
    /\ session.video_music_delay = 20
    /\ outputs.preview.exists
    /\ outputs.preview.delay = Num(20)
    /\ outputs.export.exists
    /\ outputs.export.delay = Num(0)

\* C29: after a playback render with music, an export path that is still set
\* belongs to an export made with the current volume; a render with another
\* volume clears the path of an earlier export; a generation that succeeds
\* clears both export keys.
C29_ExportVolume ==
    /\ [](  (playback.with_music /\ Get(session, "video_export_path") # None) =>
                /\ Get(session, "video_export_volume") = Num(session.video_music_volume)
                /\ outputs.export.exists
                /\ outputs.export.volume = Num(session.video_music_volume))
    /\ [][/\ (RenderedWithMusic /\ Get(session, "video_export_path") # None
                /\ session'.video_music_volume # session.video_music_volume
                /\ outputs'.export = outputs.export)
                    => Get(session', "video_export_path") = None
          /\ (page.at = "handler" /\ page'.at = "shown" /\ outcome = Returned)
                    => (Get(session', "video_export_path") = None
                            /\ Get(session', "video_export_volume") = None)]_vars
\* An export made at one volume lost its path when the page was rendered at
\* the other volume.
C29_Witness ==
    /\ playback.with_music
    /\ outputs.export.exists
    /\ outputs.export.volume = Num(50)
    /\ session.video_music_volume = 25
    /\ Get(session, "video_export_path") = None
    /\ Get(session, "video_export_volume") = Num(25)

\* C30: the handler of the Generate button catches the exception of a
\* generation that fails and leaves the video asset and the preview and
\* export keys as they were; a generation that succeeds replaces the video
\* asset with one of status ready and clears the keys.
C30_FailureKeepsAsset ==
    [][(page.at = "handler" /\ page'.at = "shown") =>
            IF outcome = Returned
            THEN /\ page'.video_asset.status = "ready"
                 /\ Get(session', "video_export_path") = None
                 /\ Get(session', "video_export_volume") = None
                 /\ Get(session', "video_music_preview_path") = None
            ELSE /\ page'.video_asset = page.video_asset
                 /\ session' = session
                 /\ page'.message = "Video generation failed"]_vars
\* A generation failed on a page that had a video asset, a preview and an
\* export.
C30_Witness ==
    /\ page.at = "shown"
    /\ outcome.status = "raised"
    /\ page.video_asset.status = "ready"
    /\ Get(session, "video_export_path") = ExportPath
    /\ Get(session, "video_music_preview_path") = PreviewPath

\* The paths on which a change of the script regenerates the scene.
RegeneratingPaths == {"chat", "sample", "editor", "character"}

\* C22: after a regeneration that succeeded, on each of the paths that
\* regenerate, the session has the new scene and the snapshot
\* structured_scene.json equals it.
C22_SnapshotFollowsScene ==
    (app.last.op \in RegeneratingPaths /\ app.last.attempted /\ ~app.last.failed) =>
        /\ app.structured_scene # None
        /\ app.snapshot = app.structured_scene

C27_NoRegression ==
    [][(/\ app'.script_text = app.script_text
        /\ app.structured_scene # None
        /\ app.source_text = app.script_text
        /\ ~(app'.last.op # "none" /\ app'.last.attempted /\ ~app'.last.failed))
            => app'.structured_scene = app.structured_scene]_vars

====
